---- MODULE Spec2Model ----
(***************************************************************************)
(* Model of src/separate_same_size_files.py: the duplicate-file detection  *)
(* and resolution engine (scan, size buckets, MD5 + basename union-find,   *)
(* retention policy, disposal through send2trash).                         *)
(*                                                                         *)
(* Paths are sequences of one-character strings, "/" being os.sep, so that *)
(* os.path.join, os.path.abspath, os.path.basename, str.startswith and     *)
(* str.count are modelled on the characters, as the code computes them.    *)
(* Python list indices 0..n-1 are the sequence indices 1..n here.          *)
(***************************************************************************)
EXTENDS Integers, Sequences, FiniteSets

VARIABLES
    fs,               \* the directory tree: candidate path -> entry
    rootListable,     \* FALSE once listing the scan root has failed
    denied,           \* the subdirectories the walk could not list
    args,             \* the parsed command line: [directory, recursive, keep_directory]
    pc,               \* position of main()
    recursive,        \* the recursive parameter of find_duplicates_by_size_and_hash
    keep_directory,   \* keep_directory of main()
    size_dict,        \* ordered dict size -> [paths], as a sequence of <<size, paths>>
    bucketIdx,        \* number of size_dict items already processed
    file_info,        \* (md5, basename) computed so far: path -> <<md5, basename>>
    duplicate_groups, \* list of groups, each a list of paths
    groupIdx,         \* number of groups already handled by handle_duplicates
    decisions,        \* per handled group: [group, immune, keep_file, files_to_trash]
    files_to_trash,   \* discards of the current group not yet attempted
    attempts,         \* every send2trash call made: <<path, succeeded>>
    total_trashed,    \* the counter handle_duplicates returns
    exit_code,        \* process exit status; -1 while running
    uf_info,          \* file_info of one bucket taken alone: [(md5, basename)]
    uf_parent,        \* parent of the union-find of that bucket
    uf_todo,          \* the pairs (i, j) of the bucket not yet compared
    uf_groups         \* the groups emitted for that bucket, as lists of indices

vars == <<fs, rootListable, denied, args, pc, recursive, keep_directory, size_dict,
          bucketIdx, file_info, duplicate_groups, groupIdx, decisions,
          files_to_trash, attempts, total_trashed, exit_code,
          uf_info, uf_parent, uf_todo, uf_groups>>

\* the state of one bucket taken alone
ufvars == <<uf_info, uf_parent, uf_todo, uf_groups>>

\* the state of main()
mainvars == <<fs, rootListable, denied, args, pc, recursive, keep_directory, size_dict,
              bucketIdx, file_info, duplicate_groups, groupIdx, decisions,
              files_to_trash, attempts, total_trashed, exit_code>>

----------------------------------------------------------------------------
(* Bounds of the model *)

MaxFiles == 4      \* at most this many entries exist under the root
MaxOdd == 1        \* at most this many of them are links or have no readable size,
                   \* the directories that cannot be listed counted among them

----------------------------------------------------------------------------
(* Generic sequence helpers *)

Range(s) == {s[i] : i \in 1..Len(s)}

\* all orderings of the finite set S
RECURSIVE Perms(_)
Perms(S) ==
    IF S = {} THEN {<<>>}
    ELSE UNION {{<<x>> \o p : p \in Perms(S \ {x})} : x \in S}

----------------------------------------------------------------------------
(* os.path on character sequences *)

Sep == "/"

\* str.count(ch)
RECURSIVE Count(_, _)
Count(p, ch) ==
    IF p = <<>> THEN 0
    ELSE (IF Head(p) = ch THEN 1 ELSE 0) + Count(Tail(p), ch)

\* str.startswith(prefix)
StartsWith(p, prefix) ==
    /\ Len(prefix) <= Len(p)
    /\ SubSeq(p, 1, Len(prefix)) = prefix

\* index of the last os.sep of p, 0 if there is none (str.rfind + 1)
RECURSIVE LastSep(_)
LastSep(p) ==
    IF p = <<>> THEN 0
    ELSE IF p[Len(p)] = Sep THEN Len(p)
    ELSE LastSep(SubSeq(p, 1, Len(p) - 1))

\* os.path.basename(p): what follows the last separator
Basename(p) == SubSeq(p, LastSep(p) + 1, Len(p))

\* os.path.join(a, b)
Join(a, b) ==
    IF b # <<>> /\ Head(b) = Sep THEN b
    ELSE IF a = <<>> \/ a[Len(a)] = Sep THEN a \o b
    ELSE a \o <<Sep>> \o b

\* p.split('/'): the components between separators
RECURSIVE Split(_, _)
Split(p, cur) ==
    IF p = <<>> THEN <<cur>>
    ELSE IF Head(p) = Sep THEN <<cur>> \o Split(Tail(p), <<>>)
    ELSE Split(Tail(p), Append(cur, Head(p)))

\* the component loop of os.path.normpath for an absolute path:
\* '' and '.' are dropped, '..' pops (and is dropped at the root)
RECURSIVE NormComps(_, _)
NormComps(comps, acc) ==
    IF comps = <<>> THEN acc
    ELSE LET c == Head(comps) IN
         IF c = <<>> \/ c = <<".">> THEN NormComps(Tail(comps), acc)
         ELSE IF c = <<".", ".">>
              THEN NormComps(Tail(comps),
                             IF acc = <<>> THEN acc ELSE SubSeq(acc, 1, Len(acc) - 1))
         ELSE NormComps(Tail(comps), Append(acc, c))

\* '/' + '/'.join(comps)
RECURSIVE JoinComps(_)
JoinComps(comps) ==
    IF comps = <<>> THEN <<>>
    ELSE <<Sep>> \o Head(comps) \o JoinComps(Tail(comps))

\* initial_slashes of os.path.normpath: exactly two leading separators are
\* kept (POSIX leaves their meaning to the implementation), three or more
\* count as one
InitialSlashes(p) ==
    IF /\ Len(p) >= 2 /\ p[1] = Sep /\ p[2] = Sep
       /\ (Len(p) = 2 \/ p[3] # Sep)
    THEN <<Sep, Sep>>
    ELSE <<Sep>>

\* os.path.abspath(p) of an absolute path p (every path of the model is
\* absolute: the root and the keep-directory are given as absolute paths)
Abspath(p) ==
    LET comps == NormComps(Split(p, <<>>), <<>>) IN
    IF comps = <<>> THEN InitialSlashes(p)
    ELSE IF InitialSlashes(p) = <<Sep>> THEN JoinComps(comps)
    ELSE <<Sep>> \o JoinComps(comps)

----------------------------------------------------------------------------
(* The directory tree *)

RootDir == <<"/", "r">>
DirK    == <<"/", "r", "/", "k">>
DirKK   == <<"/", "r", "/", "k", "k">>
DirKKD  == <<"/", "r", "/", "k", "k", "/", "d">>

\* the directories that exist (each may be empty)
AllDirs == {RootDir, DirK, DirKK, DirKKD}

\* the paths at which an entry may exist
CandFiles == {
    Join(RootDir, <<"x">>),
    Join(RootDir, <<"y">>),
    Join(DirK,    <<"x">>),
    Join(DirK,    <<"y">>),
    Join(DirKKD,  <<"y">>) }

\* os.path.dirname
Dirname(p) == IF LastSep(p) <= 1 THEN <<Sep>> ELSE SubSeq(p, 1, LastSep(p) - 1)

\* the byte contents a readable file may have: two of one byte, one of two
Contents == {<<1>>, <<2>>, <<1, 1>>}

Absent == [kind |-> "absent", bytes |-> <<>>]

\* kind: "reg"    a readable regular file
\*       "noread" a regular file whose open() raises
\*       "link"   a symbolic link to a readable regular file (size and content
\*                are the target's: getsize and open follow links)
\*       "nosize" a regular file whose os.path.getsize raises
\*       "broken" a dangling symbolic link
\*       "inlink" a symbolic link to the file at LinkTarget, a path of the
\*                scanned tree itself
Broken == [kind |-> "broken", bytes |-> <<>>]
InLink == [kind |-> "inlink", bytes |-> <<>>]
Entries ==
    [kind : {"reg"}, bytes : Contents]
    \cup [kind : {"noread", "link", "nosize"}, bytes : {<<1>>}]
    \cup {Broken, InLink}

IsOdd(e) == e.kind \in {"link", "nosize", "broken", "inlink"}

\* the one place of a link into the tree, and the file it points at
LinkPath == <<"/", "r", "/", "k", "/", "y">>
LinkTarget == <<"/", "r", "/", "x">>

FileSystems ==
    {f \in [CandFiles -> Entries \cup {Absent}] :
        /\ Cardinality({p \in CandFiles : f[p] # Absent}) <= MaxFiles
        /\ Cardinality({p \in CandFiles : IsOdd(f[p])}) <= MaxOdd
        /\ \A p \in CandFiles :
              f[p] = InLink => (p = LinkPath /\ f[LinkTarget] # Absent)}

\* the directories a path can be resolved through: those of the tree and '/'
ExistingDirs == AllDirs \cup {<<Sep>>}

\* no directory: what a path that cannot be resolved leads to
Nowhere == <<>>

\* path resolution as the file system does it, one component after the
\* other from cur: '' and '.' stay, '..' goes to the parent of the directory
\* reached, a name must be a directory that exists
RECURSIVE WalkComps(_, _)
WalkComps(comps, cur) ==
    IF comps = <<>> \/ cur = Nowhere THEN cur
    ELSE LET c == Head(comps) IN
         IF c = <<>> \/ c = <<".">> THEN WalkComps(Tail(comps), cur)
         ELSE IF c = <<".", ".">> THEN WalkComps(Tail(comps), Dirname(cur))
         ELSE IF Join(cur, c) \in ExistingDirs
              THEN WalkComps(Tail(comps), Join(cur, c))
         ELSE Nowhere

\* the directory the absolute path p names, Nowhere if it names none
RealDir(p) == WalkComps(Split(p, <<>>), <<Sep>>)

\* the place in the tree the path p of a file names: its directory as the
\* file system resolves it, and its last component
Locate(p) ==
    IF p \in CandFiles THEN p
    ELSE LET d == RealDir(SubSeq(p, 1, LastSep(p))) IN
         IF d = Nowhere THEN Nowhere ELSE Join(d, Basename(p))

\* the entry at the path p, Absent where there is none
Entry(f, p) ==
    IF p \in CandFiles THEN f[p]
    ELSE LET q == Locate(p) IN IF q \in CandFiles THEN f[q] ELSE Absent

\* what os.stat and open() see at p: they follow a symbolic link to
\* whatever is at its target, and a link whose target is gone or dangles
\* itself is dangling
Resolve(f, p) ==
    LET e == Entry(f, p) IN
    IF e = InLink
    THEN (IF f[LinkTarget].kind \in {"absent", "broken"} THEN Broken ELSE f[LinkTarget])
    ELSE e

\* os.path.isdir: the path is resolved against the tree, not normalised
IsDir(f, p) == RealDir(p) # Nowhere

\* mutant: the size counted in two-byte blocks instead of bytes
GetSize_Blocks(f, p) == (Len(Resolve(f, p).bytes) + 1) \div 2

\* os.path.getsize of an entry whose size can be read
GetSize(f, p) == Len(Resolve(f, p).bytes)

\* os.path.isfile (follows symbolic links)
IsFile(f, p) == Resolve(f, p).kind \in {"reg", "link", "nosize", "noread"}


----------------------------------------------------------------------------
(* Inventory scan: os.walk / os.listdir, lines 48-71 *)

\* the names os.listdir(d) returns, as a set (their order is the platform's):
\* the entries of the directory d resolves to, however d is written
FileNames(f, d) ==
    LET real == RealDir(d) IN
    {Basename(p) : p \in {q \in CandFiles : f[q] # Absent /\ Dirname(q) = real}}
DirNames(d) ==
    LET real == RealDir(d) IN
    {Basename(e) : e \in {q \in AllDirs : Dirname(q) = real}}

\* seqs of S2 appended to seqs of S1
Concat(S1, S2) == {a \o b : a \in S1, b \in S2}

\* the subdirectories whose listing can be denied: one that holds files,
\* one that holds a directory
Deniable == {DirK, DirKK}

\* directory d lies below directory a
Below(d, a) == d # a /\ StartsWith(d, a \o <<Sep>>)

\* the sets of subdirectories a walk of tree f can find unlistable
DeniedSets(f) ==
    {D \in SUBSET Deniable :
        Cardinality(D) + Cardinality({p \in CandFiles : IsOdd(f[p])}) <= MaxOdd}

\* the (root, filename) pairs os.walk(top) can yield, in order, as joined
\* paths: the non-directory names of top in listing order, then each
\* subdirectory in listing order, top-down; a directory of den, whose
\* listing fails, yields nothing and is not descended into (onerror=None)
RECURSIVE WalkOrders(_, _, _), WalkEach(_, _, _, _)
WalkOrders(f, top, den) ==
    IF RealDir(top) \in den THEN {<<>>}
    ELSE
    LET here == {[i \in 1..Len(o) |-> Join(top, o[i])] : o \in Perms(FileNames(f, top))}
        below == UNION {WalkEach(f, top, o, den) : o \in Perms(DirNames(top))}
    IN Concat(here, below)
WalkEach(f, top, dirs, den) ==
    IF dirs = <<>> THEN {<<>>}
    ELSE Concat(WalkOrders(f, Join(top, Head(dirs)), den), WalkEach(f, top, Tail(dirs), den))

\* mutant: the non-recursive scan descends into the subdirectories
ListOrders_Deep(f, directory) == WalkOrders(f, directory, {})

\* the paths os.path.join(directory, filename) for filename in os.listdir(directory)
ListOrders(f, directory) ==
    {[i \in 1..Len(o) |-> Join(directory, o[i])] :
        o \in Perms(FileNames(f, directory) \cup DirNames(directory))}

\* size_dict.setdefault(file_size, []).append(file_path)
SetDefaultAppend(d, key, val) ==
    IF \E k \in 1..Len(d) : d[k][1] = key
    THEN [k \in 1..Len(d) |->
            IF d[k][1] = key THEN <<key, Append(d[k][2], val)>> ELSE d[k]]
    ELSE Append(d, <<key, <<val>>>>)

\* the body of both scan loops: isfile, getsize (continue when it raises), append
\* mutant: the scan stops at the first entry whose size cannot be read
RECURSIVE ScanLoop_Abort(_, _, _)
ScanLoop_Abort(f, order, sd) ==
    IF order = <<>> THEN sd
    ELSE LET file_path == Head(order) IN
         IF IsFile(f, file_path) /\ Resolve(f, file_path).kind = "nosize"
         THEN sd
         ELSE IF IsFile(f, file_path)
         THEN ScanLoop_Abort(f, Tail(order), SetDefaultAppend(sd, GetSize(f, file_path), file_path))
         ELSE ScanLoop_Abort(f, Tail(order), sd)

RECURSIVE ScanLoop(_, _, _)
ScanLoop(f, order, sd) ==
    IF order = <<>> THEN sd
    ELSE LET file_path == Head(order) IN
         IF IsFile(f, file_path) /\ Resolve(f, file_path).kind # "nosize"
         THEN ScanLoop(f, Tail(order), SetDefaultAppend(sd, GetSize(f, file_path), file_path))
         ELSE ScanLoop(f, Tail(order), sd)

\* file_count
RECURSIVE FileCount(_)
FileCount(sd) == IF sd = <<>> THEN 0 ELSE Len(Head(sd)[2]) + FileCount(Tail(sd))

----------------------------------------------------------------------------
(* Fingerprint: compute_md5, lines 16-28 *)

\* hashlib.md5 as a collision-free digest: a digest is named by the bytes fed
Md5(bytes) == bytes

\* open() raising leaves the accumulator empty and the digest of b'' is returned
compute_md5(f, file_path) ==
    LET e == Resolve(f, file_path) IN
    IF e.kind = "noread" THEN Md5(<<>>) ELSE Md5(e.bytes)

----------------------------------------------------------------------------
(* Union-find, lines 93-105 *)

\* find(x) with path compression: <<parent afterwards, root>>
RECURSIVE find(_, _)
find(parent, x) ==
    IF parent[x] # x
    THEN LET r == find(parent, parent[x]) IN <<[r[1] EXCEPT ![x] = r[2]], r[2]>>
    ELSE <<parent, x>>

\* mutant: y is hung under x without looking up the two roots
union_direct(parent, x, y) == [parent EXCEPT ![y] = x]

\* mutant: y itself, not its root, is hung under the root of x
union_child(parent, x, y) ==
    LET fx == find(parent, x)
        fy == find(fx[1], y)
        rx == fx[2]
        ry == fy[2]
    IN IF rx # ry THEN [fy[1] EXCEPT ![y] = rx] ELSE fy[1]

\* union(x, y): parent afterwards
union(parent, x, y) ==
    LET fx == find(parent, x)
        fy == find(fx[1], y)
        rx == fx[2]
        ry == fy[2]
    IN IF rx # ry THEN [fy[1] EXCEPT ![ry] = rx] ELSE fy[1]

\* mutant: the basename half of the condition dropped
SameMd5Only(info, i, j) == info[i][1] = info[j][1]

\* mutant: the condition always true
SameSizeOnly(info, i, j) == TRUE

\* the condition of line 111
SameMd5OrName(info, i, j) == info[i][1] = info[j][1] \/ info[i][2] = info[j][2]

\* lines 111-112: one comparison, and the union it may cause
ComparePair(parent, info, i, j) ==
    IF SameMd5OrName(info, i, j) THEN union(parent, i, j) ELSE parent

\* mutant: only neighbouring records are compared
RECURSIVE PairLoop_Adjacent(_, _, _, _)
PairLoop_Adjacent(parent, info, i, j) ==
    IF i >= Len(info) THEN parent
    ELSE PairLoop_Adjacent(ComparePair(parent, info, i, i + 1), info, i + 1, i + 2)

\* the double loop of lines 108-112, from pair (i, j) on
RECURSIVE PairLoop(_, _, _, _)
PairLoop(parent, info, i, j) ==
    LET n == Len(info) IN
    IF i > n THEN parent
    ELSE IF j > n THEN PairLoop(parent, info, i + 1, i + 2)
    ELSE PairLoop(ComparePair(parent, info, i, j), info, i, j + 1)

\* lines 115-118: groups.setdefault(find(i), []).append(paths[i]) for i in range(n)
RECURSIVE GroupLoop(_, _, _, _)
GroupLoop(parent, paths, i, groups) ==
    IF i > Len(paths) THEN groups
    ELSE LET fr == find(parent, i) IN
         GroupLoop(fr[1], paths, i + 1, SetDefaultAppend(groups, fr[2], paths[i]))

\* lines 115-118: the parent array the find(i) of every record leaves behind
\* (find compresses the paths it walks, line 98)
RECURSIVE GroupLoopParent(_, _)
GroupLoopParent(parent, i) ==
    IF i > Len(parent) THEN parent
    ELSE GroupLoopParent(find(parent, i)[1], i + 1)

\* mutant: every group is emitted, singletons too
Multi_All(groups) == [k \in 1..Len(groups) |-> groups[k][2]]

\* mutant: only groups of more than two files are emitted
Multi_Strict(groups) ==
    LET Big(g) == Len(g) > 2
    IN SelectSeq([k \in 1..Len(groups) |-> groups[k][2]], Big)

\* lines 121-123: the values of groups with more than one file
RECURSIVE Multi(_)
Multi(groups) ==
    IF groups = <<>> THEN <<>>
    ELSE (IF Len(Head(groups)[2]) > 1 THEN <<Head(groups)[2]>> ELSE <<>>)
         \o Multi(Tail(groups))

\* file_info of a bucket, lines 86-90
FileInfo(f, paths) == [i \in 1..Len(paths) |-> <<compute_md5(f, paths[i]), Basename(paths[i])>>]

\* the duplicate groups of one bucket, lines 93-123
BucketGroups(f, paths) ==
    LET info == FileInfo(f, paths)
        parent == PairLoop([i \in 1..Len(paths) |-> i], info, 1, 2)
    IN Multi(GroupLoop(parent, paths, 1, <<>>))


----------------------------------------------------------------------------
(* Retention policy: is_in_directory and handle_duplicates, lines 127-177 *)

\* None (and the empty string): "if keep_directory:" is false
NoKeep == <<>>

\* mutant: the prefix test is made without the trailing separator
is_in_directory_NoSep(file_path, directory) ==
    StartsWith(Abspath(file_path), Abspath(directory))

is_in_directory(file_path, directory) ==
    LET fp == Abspath(file_path)
        dir == Abspath(directory)
        directory_with_sep == Join(dir, <<>>)
    IN StartsWith(fp, directory_with_sep)

get_depth(fp) == Count(Abspath(fp), Sep)

\* mutant: the comparison reversed, the shallowest member wins
RECURSIVE MaxFrom_Min(_, _)
MaxFrom_Min(best, rest) ==
    IF rest = <<>> THEN best
    ELSE MaxFrom_Min(IF get_depth(Head(rest)) < get_depth(best) THEN Head(rest) ELSE best,
                     Tail(rest))

\* mutant: among equal keys the later member replaces the earlier one
RECURSIVE MaxFrom_Last(_, _)
MaxFrom_Last(best, rest) ==
    IF rest = <<>> THEN best
    ELSE MaxFrom_Last(IF get_depth(Head(rest)) >= get_depth(best) THEN Head(rest) ELSE best,
                      Tail(rest))

\* max(group, key=get_depth): the first member whose key is the greatest
RECURSIVE MaxFrom(_, _)
MaxFrom(best, rest) ==
    IF rest = <<>> THEN best
    ELSE MaxFrom(IF get_depth(Head(rest)) > get_depth(best) THEN Head(rest) ELSE best,
                 Tail(rest))
MaxByDepth(group) == MaxFrom(Head(group), Tail(group))

\* mutant: only the first member other than keep_file is selected
AllBut_First(group, keep_file) ==
    LET Other(f) == f # keep_file
        all == SelectSeq(group, Other)
    IN IF all = <<>> THEN <<>> ELSE <<Head(all)>>

\* [f for f in group if f != keep_file]
AllBut(group, keep_file) ==
    LET Other(f) == f # keep_file IN SelectSeq(group, Other)

\* mutant: only the first member inside the keep-directory is immune
Immune_First(group, keep) ==
    LET Inside(f) == is_in_directory(f, keep)
        all == SelectSeq(group, Inside)
    IN IF all = <<>> THEN <<>> ELSE <<Head(all)>>

\* [f for f in group if is_in_directory(f, keep)]
Immune(group, keep) ==
    LET Inside(f) == is_in_directory(f, keep) IN SelectSeq(group, Inside)

\* mutant: the candidates are not filtered
Candidates_All(group, immune) == group

\* [f for f in group if f not in immune]
Candidates(group, immune) ==
    LET Outside(f) == f \notin Range(immune) IN SelectSeq(group, Outside)

\* mutant: the keep-directory branch is skipped, the depth rule always decides
Decide_DepthOnly(group, keep) ==
    [group |-> group, keep |-> keep, immune |-> <<>>,
     keep_file |-> MaxByDepth(group),
     files_to_trash |-> AllBut(group, MaxByDepth(group))]

\* lines 160-177 for one group: what is kept and what is handed to send2trash;
\* keep_file is <<>> when the keep-directory branch decided
Decide(group, keep) ==
    IF keep # NoKeep /\ Immune(group, keep) # <<>>
    THEN [group |-> group, keep |-> keep, immune |-> Immune(group, keep),
          keep_file |-> <<>>,
          files_to_trash |-> Candidates(group, Immune(group, keep))]
    ELSE [group |-> group, keep |-> keep, immune |-> <<>>,
          keep_file |-> MaxByDepth(group),
          files_to_trash |-> AllBut(group, MaxByDepth(group))]

----------------------------------------------------------------------------
(* The command line *)

\* a path that is no directory
NoDir == <<"/", "n">>

\* the root written with a trailing separator, as a shell completes it
RootSlash == RootDir \o <<Sep>>

Directories == {RootDir, RootSlash, NoDir}

\* --keep-directory: absent, DirK written with a trailing separator,
\* and a path that is no directory
KeepArgs == {NoKeep, DirK \o <<Sep>>, NoDir}

\* main() reads nothing past the first invalid argument, so one command line
\* stands for each way of being invalid; the scan without -r and without a
\* keep-directory is given the root with a trailing separator, every other
\* scan the root without one (os.path.join gives the same paths for both)
ArgSets ==
    {a \in [directory : Directories, recursive : BOOLEAN, keep_directory : KeepArgs] :
        /\ a.directory = NoDir => (~a.recursive /\ a.keep_directory = NoKeep)
        /\ a.directory = RootSlash => (~a.recursive /\ a.keep_directory = NoKeep)
        /\ a.directory = RootDir => (a.recursive \/ a.keep_directory # NoKeep)
        /\ a.keep_directory = NoDir => ~a.recursive}

----------------------------------------------------------------------------
(* The state machine of main() *)

Init ==
    /\ fs \in FileSystems
    /\ rootListable = TRUE
    /\ denied = {}
    /\ args \in ArgSets
    /\ pc = "main"
    /\ recursive = FALSE
    /\ keep_directory = NoKeep
    /\ size_dict = <<>>
    /\ bucketIdx = 0
    /\ file_info = <<>>
    /\ duplicate_groups = <<>>
    /\ groupIdx = 0
    /\ decisions = <<>>
    /\ files_to_trash = <<>>
    /\ attempts = <<>>
    /\ total_trashed = 0
    /\ exit_code = -1
    /\ uf_info = <<>>
    /\ uf_parent = <<>>
    /\ uf_todo = {}
    /\ uf_groups = <<>>

\* sys.exit(code)
Exit(code) == pc' = "done" /\ exit_code' = code

\* mutant: the flag is left as it was given on the command line
ForceRecursive_AsGiven(flag) == flag

\* line 232: args.recursive = True
ForceRecursive(flag) == TRUE

\* main(), lines 218-240: validate the arguments, force recursion with a keep-directory
MainArgs ==
    /\ pc = "main"
    /\ UNCHANGED ufvars
    /\ IF ~IsDir(fs, args.directory)
       THEN Exit(1) /\ UNCHANGED <<args, recursive, keep_directory>>
       ELSE IF args.keep_directory # NoKeep
       THEN IF ~IsDir(fs, args.keep_directory)
            THEN Exit(1) /\ UNCHANGED <<args, recursive, keep_directory>>
            ELSE /\ keep_directory' = Abspath(args.keep_directory)
                 /\ args' = [args EXCEPT !.recursive = ForceRecursive(args.recursive)]
                 /\ recursive' = args'.recursive
                 /\ pc' = "scan"
                 /\ UNCHANGED exit_code
       ELSE /\ recursive' = args.recursive
            /\ pc' = "scan"
            /\ UNCHANGED <<args, keep_directory, exit_code>>
    /\ UNCHANGED <<fs, rootListable, denied, size_dict, bucketIdx, file_info,
                   duplicate_groups, groupIdx, decisions, files_to_trash,
                   attempts, total_trashed>>

\* find_duplicates_by_size_and_hash, lines 45-77: the scan.  os.walk swallows
\* the error of listing its top or any directory below it (onerror=None);
\* os.listdir raises it, and nothing catches it: the interpreter ends with
\* status 1.
Scan ==
    /\ pc = "scan"
    /\ UNCHANGED ufvars
    /\ \E listable \in BOOLEAN :
       \E den \in (IF recursive /\ listable THEN DeniedSets(fs) ELSE {{}}) :
        /\ rootListable' = listable
        /\ denied' = den
        /\ IF ~recursive /\ ~listable
           THEN Exit(1) /\ UNCHANGED size_dict
           ELSE \E order \in (IF recursive
                              THEN (IF listable THEN WalkOrders(fs, args.directory, den)
                                    ELSE {<<>>})
                              ELSE ListOrders(fs, args.directory)) :
                  /\ size_dict' = ScanLoop(fs, order, <<>>)
                  /\ pc' = IF FileCount(size_dict') = 0 THEN "found" ELSE "bucket"
                  /\ UNCHANGED exit_code
    /\ UNCHANGED <<fs, args, recursive, keep_directory, bucketIdx,
                   file_info, duplicate_groups, groupIdx, decisions,
                   files_to_trash, attempts, total_trashed>>

\* mutant: buckets of a single file are processed too
SkipBucket_Never(paths) == FALSE

\* line 82: "if len(paths) < 2: continue"
SkipBucket(paths) == Len(paths) < 2

\* mutant: "return duplicate_groups" inside the loop, after the first bucket
LastBucket_First(idx, sd) == TRUE

\* the loop of line 81 is over, line 125 returns
LastBucket(idx, sd) == idx = Len(sd)

\* one iteration of "for size_val, paths in size_dict.items()", lines 81-123;
\* after the last one the function returns duplicate_groups
ProcessBucket ==
    /\ pc = "bucket"
    /\ UNCHANGED ufvars
    /\ bucketIdx < Len(size_dict)
    /\ LET paths == size_dict[bucketIdx + 1][2] IN
       IF SkipBucket(paths)
       THEN UNCHANGED <<file_info, duplicate_groups>>
       ELSE /\ file_info' =
                [p \in DOMAIN file_info \cup Range(paths) |->
                    IF p \in Range(paths)
                    THEN <<compute_md5(fs, p), Basename(p)>>
                    ELSE file_info[p]]
            /\ duplicate_groups' = duplicate_groups \o BucketGroups(fs, paths)
    /\ bucketIdx' = bucketIdx + 1
    /\ pc' = IF LastBucket(bucketIdx', size_dict) THEN "found" ELSE "bucket"
    /\ UNCHANGED <<fs, rootListable, denied, args, recursive, keep_directory, size_dict,
                   groupIdx, decisions, files_to_trash, attempts, total_trashed,
                   exit_code>>

\* main(), lines 243-247
MainFound ==
    /\ pc = "found"
    /\ UNCHANGED ufvars
    /\ IF duplicate_groups = <<>>
       THEN Exit(0)
       ELSE pc' = "handle" /\ UNCHANGED exit_code
    /\ UNCHANGED <<fs, rootListable, denied, args, recursive, keep_directory, size_dict,
                   bucketIdx, file_info, duplicate_groups, groupIdx, decisions,
                   files_to_trash, attempts, total_trashed>>

\* mutant: a rejected trash move makes the exit status non-zero
EndStatus_Failures(att) ==
    IF \E k \in 1..Len(att) : ~att[k][2] THEN 1 ELSE 0

\* main() returns after line 248: the interpreter ends with status 0
EndStatus(att) == 0

\* handle_duplicates, lines 155-177: the retention decision of the next group;
\* after the last group the function returns and main() ends (line 248)
HandleGroup ==
    /\ pc = "handle"
    /\ UNCHANGED ufvars
    /\ IF groupIdx < Len(duplicate_groups)
       THEN LET d == Decide(duplicate_groups[groupIdx + 1], keep_directory) IN
            /\ decisions' = Append(decisions, d)
            /\ files_to_trash' = d.files_to_trash
            /\ groupIdx' = groupIdx + 1
            /\ pc' = IF d.files_to_trash = <<>> THEN "handle" ELSE "trash"
            /\ UNCHANGED exit_code
       ELSE /\ Exit(EndStatus(attempts))
            /\ UNCHANGED <<decisions, files_to_trash, groupIdx>>
    /\ UNCHANGED <<fs, rootListable, denied, args, recursive, keep_directory, size_dict,
                   bucketIdx, file_info, duplicate_groups, attempts, total_trashed>>

\* mutant: the whole directory of the file is moved to the trash
MoveToTrash_Dir(f, fp) ==
    LET at == Locate(fp) IN
    [p \in CandFiles |-> IF Dirname(p) = Dirname(at) THEN Absent ELSE f[p]]

\* send2trash(fp) succeeding: the entry at fp leaves the tree
MoveToTrash(f, fp) ==
    LET at == Locate(fp) IN
    IF at \in CandFiles THEN [f EXCEPT ![at] = Absent] ELSE f

\* mutant: the counter is incremented whether or not send2trash raised
NextTotal_Always(total, ok) == total + 1

\* line 183 is reached only when send2trash returned
NextTotal(total, ok) == IF ok THEN total + 1 ELSE total

\* mutant: the first exception ends the loop over files_to_trash
Remaining_Abort(list, ok) == IF ok THEN Tail(list) ELSE <<>>

\* "for fp in files_to_trash": the except clause lets the loop go on
Remaining(list, ok) == Tail(list)

\* the disposal loop, lines 179-185: one send2trash call, which moves the entry
\* to the trash or raises
TrashOne ==
    /\ pc = "trash"
    /\ UNCHANGED ufvars
    /\ files_to_trash # <<>>
    /\ LET fp == Head(files_to_trash) IN
       \E ok \in BOOLEAN :
          /\ attempts' = Append(attempts, <<fp, ok>>)
          /\ fs' = IF ok THEN MoveToTrash(fs, fp) ELSE fs
          /\ total_trashed' = NextTotal(total_trashed, ok)
          /\ files_to_trash' = Remaining(files_to_trash, ok)
    /\ pc' = IF files_to_trash' = <<>> THEN "handle" ELSE "trash"
    /\ UNCHANGED <<rootListable, denied, args, recursive, keep_directory, size_dict,
                   bucketIdx, file_info, duplicate_groups, groupIdx, decisions,
                   exit_code>>

Next ==
    \/ MainArgs
    \/ Scan
    \/ ProcessBucket
    \/ MainFound
    \/ HandleGroup
    \/ TrashOne

Spec == Init /\ [][Next]_vars


----------------------------------------------------------------------------
(* The grouping of one size bucket taken alone, lines 86-123.  The records  *)
(* of the bucket are its file_info entries; record i stands for paths[i].   *)

\* the most records a bucket has when its comparisons are made in any order
MaxBucket == 3

\* the most records a bucket has when the loops run as written
MaxRecords == 4

\* the most indices of a parent array on which union and find are called freely
MaxNodes == 4

\* the fingerprints compute_md5 gives files of one byte, and their basenames
Digests == {Md5(<<>>), Md5(<<1>>), Md5(<<2>>)}
Names == {Basename(p) : p \in CandFiles}

\* line 94: parent = list(range(n))
RangeList(n) == [i \in 1..n |-> i]

\* range(i + 1, n) for i in range(n): the pairs the double loop visits
Pairs(n) == {pr \in (1..n) \X (1..n) : pr[1] < pr[2]}

\* main() stays where it is while a bucket is looked at alone
MainIdle(at) ==
    /\ fs = [p \in CandFiles |-> Absent]
    /\ rootListable = TRUE
    /\ denied = {}
    /\ args = [directory |-> RootDir, recursive |-> FALSE, keep_directory |-> NoKeep]
    /\ pc = at
    /\ recursive = FALSE
    /\ keep_directory = NoKeep
    /\ size_dict = <<>>
    /\ bucketIdx = 0
    /\ file_info = <<>>
    /\ duplicate_groups = <<>>
    /\ groupIdx = 0
    /\ decisions = <<>>
    /\ files_to_trash = <<>>
    /\ attempts = <<>>
    /\ total_trashed = 0
    /\ exit_code = -1

\* a bucket of n records, before the first comparison (lines 86-94)
BucketOf(n) ==
    /\ uf_info \in [1..n -> Digests \X Names]
    /\ uf_parent = RangeList(n)
    /\ uf_todo = Pairs(n)
    /\ uf_groups = <<>>

\* lines 115-123: the groups of more than one record
GroupAll ==
    /\ pc = "group"
    /\ uf_groups' = Multi(GroupLoop(uf_parent, RangeList(Len(uf_info)), 1, <<>>))
    /\ uf_parent' = GroupLoopParent(uf_parent, 1)
    /\ pc' = "grouped"
    /\ UNCHANGED <<uf_info, uf_todo>>
    /\ UNCHANGED <<fs, rootListable, denied, args, recursive, keep_directory, size_dict,
                   bucketIdx, file_info, duplicate_groups, groupIdx, decisions,
                   files_to_trash, attempts, total_trashed, exit_code>>

\* lines 108-112 with the pairs taken in any order: one comparison
CompareAny ==
    /\ pc = "compare"
    /\ \E pr \in uf_todo :
          /\ uf_parent' = ComparePair(uf_parent, uf_info, pr[1], pr[2])
          /\ uf_todo' = uf_todo \ {pr}
    /\ pc' = IF uf_todo' = {} THEN "group" ELSE "compare"
    /\ UNCHANGED <<uf_info, uf_groups>>
    /\ UNCHANGED <<fs, rootListable, denied, args, recursive, keep_directory, size_dict,
                   bucketIdx, file_info, duplicate_groups, groupIdx, decisions,
                   files_to_trash, attempts, total_trashed, exit_code>>

InitUF == MainIdle("compare") /\ \E n \in 2..MaxBucket : BucketOf(n)

NextUF ==
    \/ CompareAny
    \/ GroupAll

SpecUF == InitUF /\ [][NextUF]_vars

\* lines 108-112 as written: the whole double loop
CompareAll ==
    /\ pc = "pairs"
    /\ uf_parent' = PairLoop(uf_parent, uf_info, 1, 2)
    /\ uf_todo' = {}
    /\ pc' = "group"
    /\ UNCHANGED <<uf_info, uf_groups>>
    /\ UNCHANGED <<fs, rootListable, denied, args, recursive, keep_directory, size_dict,
                   bucketIdx, file_info, duplicate_groups, groupIdx, decisions,
                   files_to_trash, attempts, total_trashed, exit_code>>

InitBucket == MainIdle("pairs") /\ \E n \in 2..MaxRecords : BucketOf(n)

NextBucket ==
    \/ CompareAll
    \/ GroupAll

SpecBucket == InitBucket /\ [][NextBucket]_vars

\* union(i, j) called for any two indices
UnionAny ==
    /\ pc = "union"
    /\ \E i \in DOMAIN uf_parent, j \in DOMAIN uf_parent :
          uf_parent' = union(uf_parent, i, j)
    /\ UNCHANGED <<uf_info, uf_todo, uf_groups>>
    /\ UNCHANGED mainvars

\* find(i) called for any index, for its path compression
FindAny ==
    /\ pc = "union"
    /\ \E i \in DOMAIN uf_parent : uf_parent' = find(uf_parent, i)[1]
    /\ UNCHANGED <<uf_info, uf_todo, uf_groups>>
    /\ UNCHANGED mainvars

InitUnion ==
    /\ MainIdle("union")
    /\ \E n \in 1..MaxNodes : uf_parent = RangeList(n)
    /\ uf_info = <<>>
    /\ uf_todo = {}
    /\ uf_groups = <<>>

NextUnion ==
    \/ UnionAny
    \/ FindAny

SpecUnion == InitUnion /\ [][NextUnion]_vars


----------------------------------------------------------------------------
(* Vocabulary of the properties.  These definitions restate the notions of  *)
(* the specification independently of the code's loops.                     *)

\* the files the scan put into size_dict
Inventory == UNION {Range(size_dict[k][2]) : k \in 1..Len(size_dict)}

\* the member sets of the groups returned, and their number
GroupSets == {Range(duplicate_groups[k]) : k \in 1..Len(duplicate_groups)}

\* the byte size of the file at p
ByteSize(p) == Len(Resolve(fs, p).bytes)

\* fingerprint or basename shared by two different files of one size
Direct(a, b) ==
    /\ a # b
    /\ ByteSize(a) = ByteSize(b)
    /\ (compute_md5(fs, a) = compute_md5(fs, b) \/ Basename(a) = Basename(b))

\* the files reachable from S by chains of Direct links
RECURSIVE Closure(_)
Closure(S) ==
    LET T == S \cup {q \in Inventory : \E p \in S : Direct(p, q)}
    IN IF T = S THEN S ELSE Closure(T)

Component(a) == Closure({a})

\* two files are members of one group
Together(a, b) == \E g \in GroupSets : a \in g /\ b \in g

\* the non-empty components of a path
Components(p) ==
    LET NonEmpty(c) == c # <<>> IN SelectSeq(Split(p, <<>>), NonEmpty)

\* directory d is a proper ancestor of p, component by component
InsideDir(p, d) ==
    LET pc_ == Components(p)
        dc == Components(d)
    IN Len(dc) < Len(pc_) /\ SubSeq(pc_, 1, Len(dc)) = dc

\* nesting depth of a normalized absolute path
PathDepth(p) == Len(Components(p))

\* the decisions taken so far, and what each one keeps
DecisionSet == Range(decisions)
Discards(d) == Range(d.files_to_trash)
Survivors(d) == IF d.immune # <<>> THEN Range(d.immune) ELSE {d.keep_file}
Protected(d) == {m \in Range(d.group) : d.keep # NoKeep /\ InsideDir(m, d.keep)}

----------------------------------------------------------------------------
(* Properties *)

\* C1: when find_duplicates_by_size_and_hash returns, any two files of one
\* DuplicateGroup have the same byte size.
C1_SizeInvariant ==
    pc = "found" =>
        \A g \in GroupSets : \A a \in g, b \in g : ByteSize(a) = ByteSize(b)

\* a group was emitted while a file of another size carries the basename of
\* one of its members
C1_Witness ==
    /\ pc = "found"
    /\ \E g \in GroupSets : \E a \in g : \E b \in Inventory :
          Basename(a) = Basename(b) /\ ByteSize(a) # ByteSize(b)

\* C2: any two scanned files of the same size with equal fingerprints or
\* equal basenames are members of the same DuplicateGroup.
C2_PairwiseComplete ==
    [](pc = "found" =>
           \A a \in Inventory, b \in Inventory : Direct(a, b) => Together(a, b))

\* two files of different content grouped on their basename alone
C2_Witness ==
    /\ pc = "found"
    /\ \E a \in Inventory, b \in Inventory :
          /\ Direct(a, b)
          /\ compute_md5(fs, a) # compute_md5(fs, b)
          /\ Together(a, b)

\* C3: files linked by a chain of direct relations, of any length, within a
\* size bucket are in one DuplicateGroup.
C3_Transitive ==
    [](pc = "found" =>
           \A a \in Inventory : \A c \in Component(a) : a # c => Together(a, c))

\* A, B, C in one group, A-B and B-C directly related, A-C not
C3_Witness ==
    /\ pc = "found"
    /\ \E a \in Inventory, b \in Inventory, c \in Inventory :
          /\ Direct(a, b) /\ Direct(b, c)
          /\ a # c /\ ~Direct(a, c)
          /\ \E g \in GroupSets : {a, b, c} \subseteq g

\* C4: each DuplicateGroup is exactly one connected component of the
\* relation, and a file related to no other file is in no group.
C4_Sound ==
    [](pc = "found" =>
           /\ \A g \in GroupSets : \A a \in g : g = Component(a)
           /\ \A a \in Inventory :
                 (\A b \in Inventory : ~Direct(a, b)) => \A g \in GroupSets : a \notin g)

\* a group was emitted and a file of the same size bucket is outside it
C4_Witness ==
    /\ pc = "found"
    /\ \E g \in GroupSets : \E a \in g : \E b \in Inventory \ g :
          ByteSize(a) = ByteSize(b)

\* C5: every DuplicateGroup has at least 2 members and no path is a member
\* of two groups of the run.
C5_GroupsDisjoint ==
    /\ \A k \in 1..Len(duplicate_groups) :
          Cardinality(Range(duplicate_groups[k])) >= 2
    /\ \A k \in 1..Len(duplicate_groups), l \in 1..Len(duplicate_groups) :
          k # l => Range(duplicate_groups[k]) \cap Range(duplicate_groups[l]) = {}

\* two groups came out of one size bucket and the bucket has a third class
C5_Witness ==
    /\ pc = "found"
    /\ Len(duplicate_groups) >= 2
    /\ \E a \in Range(duplicate_groups[1]), b \in Range(duplicate_groups[2]) :
          ByteSize(a) = ByteSize(b)

\* C6 as stated: the groups of a bucket with more than one member cover the
\* whole bucket.
C6_GroupsCoverBucket ==
    pc = "found" =>
        \A k \in 1..Len(size_dict) :
            Len(size_dict[k][2]) > 1 =>
                \A p \in Range(size_dict[k][2]) : \E g \in GroupSets : p \in g

\* C6 amended: the groups of a bucket with more than one member cover exactly
\* the records that share a fingerprint or a basename with another record of
\* the bucket.
C6_GroupsCoverRelated ==
    pc = "found" =>
        \A k \in 1..Len(size_dict) :
            Len(size_dict[k][2]) > 1 =>
                UNION {g \in GroupSets : g \subseteq Range(size_dict[k][2])}
                  = {p \in Range(size_dict[k][2]) : \E q \in Inventory : Direct(p, q)}

\* a bucket of three: two related records grouped, the third left out
C6_Witness ==
    /\ pc = "found"
    /\ \E k \in 1..Len(size_dict) :
          /\ Len(size_dict[k][2]) > 2
          /\ \E p \in Range(size_dict[k][2]) : \A g \in GroupSets : p \notin g
          /\ \E g \in GroupSets : g \subseteq Range(size_dict[k][2])

\* handle_duplicates has just decided a group: the state that follows lines
\* 160-177, before any send2trash call for the group.  Every decision is the
\* latest one in that state.
JustDecided ==
    /\ decisions # <<>>
    /\ pc \in {"handle", "trash"}
    /\ files_to_trash = decisions[Len(decisions)].files_to_trash
Latest == decisions[Len(decisions)]

\* C7: every retention decision splits the group into survivors and discards,
\* disjoint and together the whole group, with at least one survivor.
C7_RetentionPartition ==
    JustDecided =>
        /\ Survivors(Latest) \cup Discards(Latest) = Range(Latest.group)
        /\ Survivors(Latest) \cap Discards(Latest) = {}
        /\ Survivors(Latest) # {}
        /\ Discards(Latest) # Range(Latest.group)

\* a keep-directory decision with members on both sides
C7_Witness ==
    \E d \in DecisionSet :
        /\ d.keep # NoKeep
        /\ d.immune # <<>>
        /\ d.files_to_trash # <<>>

\* C8: with a keep-directory configured, no path inside it is ever passed to
\* send2trash (every call is the last one logged in the state that follows it).
C8_ProtectedNeverTrashed ==
    (keep_directory # NoKeep /\ attempts # <<>>) =>
        ~InsideDir(attempts[Len(attempts)][1], keep_directory)

\* a deeper file outside the keep-directory was trashed from a group with a
\* shallower member inside it
C8_Witness ==
    /\ keep_directory # NoKeep
    /\ \E d \in DecisionSet : \E m \in Protected(d) : \E i \in 1..Len(attempts) :
          /\ attempts[i][1] \in Range(d.group)
          /\ PathDepth(attempts[i][1]) > PathDepth(m)

\* C9: with a keep-directory configured and a member of the group inside it,
\* the discards are exactly the members outside and the survivors exactly the
\* members inside.
C9_ProtectedRule ==
    []((JustDecided /\ Protected(Latest) # {}) =>
           /\ Discards(Latest) = Range(Latest.group) \ Protected(Latest)
           /\ Survivors(Latest) = Protected(Latest))

\* two members inside survive, a deeper member outside is discarded
C9_Witness ==
    \E d \in DecisionSet :
        /\ Cardinality(Protected(d)) >= 2
        /\ \E o \in Discards(d) : \A m \in Protected(d) : PathDepth(o) > PathDepth(m)

\* C10: without a keep-directory, or with none of the members inside it, the
\* group has exactly one survivor, of the greatest depth, and every other
\* member is a discard.
C10_DepthRule ==
    []((JustDecided /\ Protected(Latest) = {}) =>
           /\ Cardinality(Range(Latest.group) \ Discards(Latest)) = 1
           /\ \A s \in Range(Latest.group) \ Discards(Latest) :
                 \A m \in Range(Latest.group) : PathDepth(s) >= PathDepth(m))

\* the fallback: a keep-directory is configured, no member is inside, and the
\* members lie at different depths
C10_Witness ==
    \E d \in DecisionSet :
        /\ d.keep # NoKeep
        /\ Protected(d) = {}
        /\ \E a \in Range(d.group), b \in Range(d.group) : PathDepth(a) # PathDepth(b)


----------------------------------------------------------------------------
(* Runs over the same tree in another listing order *)

\* the orders in which a scan of directory can meet the entries of f
ScanOrders(f, directory, rec, den) ==
    IF rec THEN WalkOrders(f, directory, den) ELSE ListOrders(f, directory)

\* the members of S in the order in which o meets them
Restrict(o, S) == LET In(x) == x \in S IN SelectSeq(o, In)

\* C11: the survivors chosen for a group depend on the set of its members
\* only: a run that meets the same members in another listing order of the
\* same tree chooses the same survivors, ties in depth included.
C11_SurvivorDeterministic ==
    JustDecided =>
        \A o \in ScanOrders(fs, args.directory, recursive, denied) :
            Survivors(Decide(Restrict(o, Range(Latest.group)), Latest.keep))
              = Survivors(Latest)


\* duplicate_groups as find_duplicates_by_size_and_hash returns it for size_dict sd
RECURSIVE AllGroups(_, _)
AllGroups(f, sd) ==
    IF sd = <<>> THEN <<>>
    ELSE (IF SkipBucket(Head(sd)[2]) THEN <<>> ELSE BucketGroups(f, Head(sd)[2]))
         \o AllGroups(f, Tail(sd))

\* the files a run over tree f hands to send2trash when the scan meets the
\* entries in order o
RunDiscards(f, o, keep) ==
    LET groups == AllGroups(f, ScanLoop(f, o, <<>>))
    IN UNION {Range(Decide(groups[k], keep).files_to_trash) : k \in 1..Len(groups)}

\* the run has ended normally and every send2trash call succeeded
AllDisposed ==
    /\ pc = "done"
    /\ exit_code = 0
    /\ rootListable
    /\ \A i \in 1..Len(attempts) : attempts[i][2]

\* C12: after a run in which every disposal succeeded, a second run on the
\* resulting tree with the same root, recursive flag and keep-directory, in
\* any listing order, hands no file to send2trash.
C12_Idempotent ==
    [](AllDisposed =>
        \A o \in ScanOrders(fs, args.directory, recursive, denied) :
            RunDiscards(fs, o, keep_directory) = {})

\* the first run trashed a file and left two survivors of one group, which the
\* second run groups again
C12_Witness ==
    /\ AllDisposed
    /\ attempts # <<>>
    /\ \E d \in DecisionSet : Cardinality(Survivors(d)) >= 2


\* a relation the specification accepts: an equal basename, or an equal
\* fingerprint of two files that were both read
Readable(p) == Resolve(fs, p).kind # "noread"
SoundDirect(a, b) ==
    /\ a # b
    /\ ByteSize(a) = ByteSize(b)
    /\ \/ Basename(a) = Basename(b)
       \/ Readable(a) /\ Readable(b) /\ compute_md5(fs, a) = compute_md5(fs, b)

RECURSIVE SoundClosure(_)
SoundClosure(S) ==
    LET T == S \cup {q \in Inventory : \E p \in S : SoundDirect(p, q)}
    IN IF T = S THEN S ELSE SoundClosure(T)

\* C13: a file that could not be read is united with another file only
\* through basenames (or through fingerprints of files that were read): every
\* group lies within one component of that relation.
C13_FailedHashNoWildcard ==
    pc = "found" =>
        \A g \in GroupSets : \A a \in g : g \subseteq SoundClosure({a})


\* the paths passed to send2trash so far, in call order, and the discards of
\* the decisions taken so far, in decision order
AttemptPaths == [i \in 1..Len(attempts) |-> attempts[i][1]]
RECURSIVE DiscardsOf(_)
DiscardsOf(ds) ==
    IF ds = <<>> THEN <<>> ELSE Head(ds).files_to_trash \o DiscardsOf(Tail(ds))

\* C14: whatever calls fail, every discard of every group gets exactly one
\* send2trash call: the calls made so far and the calls still due for the
\* current group are the discards decided so far, each once, and at the end
\* every group has been decided.
C14_OneAttemptEach ==
    /\ pc \in {"handle", "trash", "done"} =>
          AttemptPaths \o files_to_trash = DiscardsOf(decisions)
    /\ (pc = "done" /\ exit_code = 0 /\ duplicate_groups # <<>>) =>
          /\ Len(decisions) = Len(duplicate_groups)
          /\ files_to_trash = <<>>
          /\ \A i \in 1..Len(attempts), j \in 1..Len(attempts) :
                i # j => attempts[i][1] # attempts[j][1]

\* the first call, of the first group, failed and the calls of the next
\* group were made all the same
C14_Witness ==
    /\ pc = "done"
    /\ Len(decisions) >= 2
    /\ decisions[1].files_to_trash # <<>>
    /\ decisions[2].files_to_trash # <<>>
    /\ ~attempts[1][2]
    /\ Len(attempts) >= 2

\* the send2trash calls that returned
Succeeded == {i \in 1..Len(attempts) : attempts[i][2]}

\* C15: the counter handle_duplicates returns is the number of send2trash
\* calls that succeeded: never more than the number of discards, and equal to
\* it when no call failed.
C15_CountsSuccesses ==
    /\ total_trashed = Cardinality(Succeeded)
    /\ total_trashed <= Len(DiscardsOf(decisions))
    /\ (pc = "done" /\ Succeeded = 1..Len(attempts)) =>
          total_trashed = Len(DiscardsOf(decisions))

\* the run ended after one call failed and another succeeded
C15_Witness ==
    /\ pc = "done"
    /\ \E i \in 1..Len(attempts), j \in 1..Len(attempts) :
          attempts[i][2] /\ ~attempts[j][2]


\* C16: the tree changes only by a send2trash call moving the file at the
\* head of files_to_trash, a discard of the group just decided and a survivor
\* of no group; no other step and no other path changes, so survivors,
\* ungrouped files and files alone in their bucket stay as they were.
C16_Frame ==
    [][\A p \in CandFiles :
          fs'[p] # fs[p] =>
              /\ pc = "trash"
              /\ p = Head(files_to_trash)
              /\ p \in Discards(Latest)
              /\ \A d \in DecisionSet : p \notin Survivors(d)
              /\ fs'[p] = Absent]_vars

\* at the end of a run that trashed a file: a survivor, an ungrouped file of
\* a bucket of several, and a file alone in its bucket are all present
C16_Witness ==
    /\ pc = "done"
    /\ Succeeded # {}
    /\ \E d \in DecisionSet : \E s \in Survivors(d) : fs[s] # Absent
    /\ \E k \in 1..Len(size_dict) :
          /\ Len(size_dict[k][2]) = 1
          /\ fs[size_dict[k][2][1]] # Absent
    /\ \E k \in 1..Len(size_dict) :
          /\ Len(size_dict[k][2]) > 1
          /\ \E p \in Range(size_dict[k][2]) :
                fs[p] # Absent /\ \A g \in GroupSets : p \notin g


\* the scan has just ended normally and the tree is as the scan met it
ScannedNow == pc \in {"bucket", "found"} /\ rootListable

\* the regular files whose size can be read
RegularFiles == {p \in CandFiles : fs[p].kind \in {"reg", "noread"}}

\* direct children of the scan root
InRoot(p) == Dirname(p) = Abspath(args.directory)

\* the directories the walk has listed: those it came to and could list
Listed == {d \in AllDirs : d \notin denied /\ \A a \in denied : ~Below(d, a)}

\* C17 as stated: without the recursive flag the inventory holds the regular
\* files directly in the root and nothing from a subdirectory, so no file of
\* a subdirectory is grouped or trashed; with it the inventory holds the
\* regular files of every directory below the root.
C17_AllDescendants ==
    /\ ScannedNow =>
          IF recursive
          THEN RegularFiles \subseteq Inventory
          ELSE /\ \A p \in Inventory : InRoot(p)
               /\ {p \in RegularFiles : InRoot(p)} \subseteq Inventory
    /\ ~recursive =>
          /\ \A g \in GroupSets : \A p \in g : InRoot(p)
          /\ attempts # <<>> => InRoot(attempts[Len(attempts)][1])

\* C17: without the recursive flag the inventory holds the regular files
\* directly in the root and nothing from a subdirectory, so no file of a
\* subdirectory is grouped or trashed; with it the inventory holds the
\* regular files of every directory the walk could list, and nothing from a
\* directory it could not list or from below one.
C17_ScanScope ==
    /\ ScannedNow =>
          IF recursive
          THEN /\ {p \in RegularFiles : Dirname(p) \in Listed} \subseteq Inventory
               /\ \A p \in Inventory : Dirname(p) \in Listed
          ELSE /\ \A p \in Inventory : InRoot(p)
               /\ {p \in RegularFiles : InRoot(p)} \subseteq Inventory
    /\ ~recursive =>
          /\ \A g \in GroupSets : \A p \in g : InRoot(p)
          /\ attempts # <<>> => InRoot(attempts[Len(attempts)][1])

\* a recursive scan could not list a subdirectory that holds a regular file,
\* and grouped two files of the directories it could list
C17_Witness ==
    /\ ScannedNow
    /\ recursive
    /\ denied # {}
    /\ \E p \in RegularFiles : Dirname(p) \notin Listed
    /\ GroupSets # {}


\* C18: no symbolic link and no directory is ever placed in a size bucket
\* (hence none is grouped or trashed).
C18_NoLinkInInventory ==
    \A p \in Inventory :
        /\ fs[p] # Absent => fs[p].kind \notin {"link", "inlink"}
        /\ p \notin AllDirs


\* the entries whose os.path.getsize raises
SizeFails == {p \in CandFiles : fs[p].kind = "nosize"}

\* the tree with those entries taken away
WithoutSizeFails == [p \in CandFiles |-> IF p \in SizeFails THEN Absent ELSE fs[p]]

\* C19: an entry whose size cannot be read is in no bucket, is never handed
\* to the trash, and the buckets are those a scan of the tree without that
\* entry produces.
C19_SizeFailureSkipped ==
    /\ []((ScannedNow /\ SizeFails # {}) =>
            /\ Inventory \cap SizeFails = {}
            /\ \E o \in ScanOrders(WithoutSizeFails, args.directory, recursive, denied) :
                  size_dict = ScanLoop(WithoutSizeFails, o, <<>>))
    /\ [](attempts # <<>> => attempts[Len(attempts)][1] \in Inventory)

\* a scan met an entry whose size cannot be read and inventoried two others
C19_Witness ==
    /\ ScannedNow
    /\ \E p \in SizeFails : recursive \/ InRoot(p)
    /\ Cardinality(Inventory) >= 2


\* the buckets of the inventory, as path lists
Buckets == {size_dict[k][2] : k \in 1..Len(size_dict)}

\* the files that are alone in their size bucket
Alone == UNION {Range(b) : b \in {c \in Buckets : Len(c) = 1}}

\* C20: a file is fingerprinted only if its size bucket has more than one
\* member; a file alone in its bucket is never hashed and is in no group.
C20_LazyFingerprint ==
    /\ \A p \in DOMAIN file_info : \E b \in Buckets : p \in Range(b) /\ Len(b) > 1
    /\ \A p \in Alone :
          /\ p \notin DOMAIN file_info
          /\ \A g \in GroupSets : p \notin g

\* every bucket was processed: the files of a larger bucket were hashed and a
\* file alone in its bucket was passed over
C20_Witness ==
    /\ pc = "found"
    /\ Alone # {}
    /\ DOMAIN file_info # {}


\* C21 as claimed: the exit status is non-zero only when the root directory
\* does not exist or cannot be read.
C21_ExitOnlyRoot ==
    (pc = "done" /\ exit_code # 0) =>
        (~IsDir(fs, args.directory) \/ ~rootListable)

\* the per-file errors of a run: a size that cannot be read, a file that
\* cannot be read for hashing, a rejected trash move
SizeErrorMet == \E p \in SizeFails : recursive \/ InRoot(p)
ReadErrorMet == \E p \in DOMAIN file_info : fs[p] # Absent /\ fs[p].kind = "noread"
TrashErrorMet == \E k \in 1..Len(attempts) : ~attempts[k][2]

\* C21 amended: the exit status is 0 or 1, and it is 1 only when the root is
\* no directory, the keep-directory given is no directory, or the listing of
\* the root fails in a non-recursive scan; no per-file error is among the
\* causes.
C21_ExitStatus ==
    /\ pc = "done" <=> exit_code # -1
    /\ pc = "done" =>
          /\ exit_code \in {0, 1}
          /\ exit_code = 1 =>
                \/ ~IsDir(fs, args.directory)
                \/ (args.keep_directory # NoKeep /\ ~IsDir(fs, args.keep_directory))
                \/ (~recursive /\ ~rootListable)

\* a run met all three kinds of per-file error and ended with status 0
C21_Witness ==
    /\ pc = "done"
    /\ exit_code = 0
    /\ SizeErrorMet
    /\ ReadErrorMet
    /\ TrashErrorMet


\* C22: when the root cannot be listed, in either scan mode, the scan yields
\* no file, no group is returned, nothing is handed to the trash, and the run
\* does not end in an error.
C22_UnlistableRootEmpty ==
    ~rootListable =>
        /\ size_dict = <<>>
        /\ duplicate_groups = <<>>
        /\ attempts = <<>>
        /\ pc = "done" => exit_code = 0


\* the groups of a bucket when the loops run as written, as lists of indices
IndexGroups(info) ==
    Multi(GroupLoop(PairLoop(RangeList(Len(info)), info, 1, 2),
                    RangeList(Len(info)), 1, <<>>))

\* a list of groups as a set of sets
SetsOf(groups) == {Range(groups[k]) : k \in 1..Len(groups)}

\* the records in the order pi: position k holds record pi[k]
Permuted(info, pi) == [k \in 1..Len(info) |-> info[pi[k]]]

\* C23: whatever the order in which the pairs of a bucket were compared and
\* united, and whatever the order in which its records (their fingerprints)
\* arrive, the groups are the same sets of records.
C23_OrderIndependent ==
    pc = "grouped" =>
        \A pi \in Perms(1..Len(uf_info)) :
            {{pi[k] : k \in g} : g \in SetsOf(IndexGroups(Permuted(uf_info, pi)))}
              = SetsOf(uf_groups)

\* three records in one group through a chain, two of them unrelated, and
\* the order of the comparisons left another parent array than the loops as
\* written
C23_Witness ==
    /\ pc = "grouped"
    /\ uf_parent # GroupLoopParent(PairLoop(RangeList(Len(uf_info)), uf_info, 1, 2), 1)
    /\ \E g \in SetsOf(uf_groups) :
          /\ Cardinality(g) = 3
          /\ \E i \in g, j \in g : i < j /\ ~SameMd5OrName(uf_info, i, j)


\* the records of a bucket grouped by fingerprint alone
ByFingerprint(info) ==
    {{i \in 1..Len(info) : info[i][1] = d} : d \in {info[i][1] : i \in 1..Len(info)}}

\* two sets of records have a basename in common
ShareName(info, g, h) == \E i \in g, j \in h : info[i][2] = info[j][2]

\* sets of records merged as long as two of them have a basename in common
RECURSIVE MergeByName(_, _)
MergeByName(info, groups) ==
    LET Mergeable == {gh \in groups \X groups :
                         gh[1] # gh[2] /\ ShareName(info, gh[1], gh[2])}
    IN IF Mergeable = {} THEN groups
       ELSE LET gh == CHOOSE x \in Mergeable : TRUE
            IN MergeByName(info, (groups \ {gh[1], gh[2]}) \cup {gh[1] \cup gh[2]})

\* C24: grouping the records of a bucket by fingerprint and then merging the
\* fingerprint groups that share a basename gives the same duplicate groups
\* as the pairwise loop with its unions.
C24_FingerprintThenName ==
    pc = "grouped" =>
        SetsOf(uf_groups) =
            {g \in MergeByName(uf_info, ByFingerprint(uf_info)) : Cardinality(g) > 1}

\* two fingerprint groups of two records each came out as one group of four
\* because one record of each carries the same basename
C24_Witness ==
    /\ pc = "grouped"
    /\ uf_todo = {}
    /\ Len(uf_info) = 4
    /\ SetsOf(uf_groups) = {1..4}
    /\ \A g \in ByFingerprint(uf_info) : Cardinality(g) = 2


\* a valid keep-directory is on the command line main() is about to read
KeepGiven ==
    /\ pc = "main"
    /\ IsDir(fs, args.directory)
    /\ args.keep_directory # NoKeep
    /\ IsDir(fs, args.keep_directory)

\* C25: with a valid keep-directory main() goes on to a recursive scan,
\* whether or not the recursive flag was given, and the scan that follows
\* inventories the regular files of the subdirectories it lists too.
C25_KeepForcesRecursive ==
    /\ [][KeepGiven => (pc' = "scan" /\ recursive' /\ keep_directory' # NoKeep)]_vars
    /\ [](keep_directory # NoKeep => recursive)
    /\ []((ScannedNow /\ keep_directory # NoKeep) =>
            {p \in RegularFiles : Dirname(p) \in Listed} \subseteq Inventory)

\* a run with a keep-directory grouped a file of the root with a file of a
\* subdirectory
C25_Witness ==
    /\ ScannedNow
    /\ pc = "found"
    /\ keep_directory # NoKeep
    /\ \E g \in GroupSets : \E a \in g, b \in g : InRoot(a) /\ ~InRoot(b)


\* the place of x in the list
PosIn(list, x) == CHOOSE k \in 1..Len(list) : list[k] = x

\* the members of a group that lie deepest
Deepest(group) ==
    {m \in Range(group) : \A o \in Range(group) : PathDepth(o) <= PathDepth(m)}

\* the size bucket a path was put in
BucketWith(p) ==
    size_dict[CHOOSE k \in 1..Len(size_dict) : p \in Range(size_dict[k][2])][2]

\* C26: under the depth rule the survivor is the deepest member that comes
\* first in the group's order, every other member, the other deepest ones
\* included, is discarded, and the group's order is the order in which the
\* scan put its members into the bucket.
C26_FirstEncountered ==
    (JustDecided /\ Latest.immune = <<>>) =>
        LET g == Latest.group IN
        /\ Latest.keep_file \in Deepest(g)
        /\ \A m \in Deepest(g) : PosIn(g, Latest.keep_file) <= PosIn(g, m)
        /\ Discards(Latest) = Range(g) \ {Latest.keep_file}
        /\ \A i \in 1..Len(g), j \in 1..Len(g) :
              i < j => PosIn(BucketWith(g[1]), g[i]) < PosIn(BucketWith(g[1]), g[j])

\* the depth rule decided a group with two deepest members, and the one that
\* was kept is not the first member of the group
C26_Witness ==
    /\ JustDecided
    /\ Latest.immune = <<>>
    /\ Cardinality(Deepest(Latest.group)) >= 2
    /\ Latest.keep_file # Latest.group[1]
    /\ Deepest(Latest.group) \ {Latest.keep_file} \subseteq Discards(Latest)


\* the ways the keep-directory d can be written: plain, with a trailing
\* separator, and through a subdirectory and ".."
DirForms(d) == {d, d \o <<Sep>>, d \o <<Sep, "d", Sep, ".", ".">>}

\* d written with two leading separators: its normalized absolute path keeps
\* them, and names another root than the paths of the scan
OtherRoot(d) == <<Sep>> \o d

\* C27: is_in_directory(f, d) holds exactly when the normalized absolute
\* path of d is a proper ancestor of f, component by component; a file of a
\* sibling directory whose name begins with the name of the keep-directory
\* is not immune.
C27_WholeComponents ==
    []((JustDecided /\ Latest.keep # NoKeep) =>
           \A m \in Range(Latest.group) :
               /\ \A d \in DirForms(Latest.keep) :
                     is_in_directory(m, d) <=> InsideDir(m, Latest.keep)
               /\ is_in_directory(m, OtherRoot(Latest.keep))
                     <=> StartsWith(m, OtherRoot(Latest.keep) \o <<Sep>>)
               /\ m \in Range(Latest.immune) <=> InsideDir(m, Latest.keep))

\* the keep-directory is /r/k, a member inside it survives and the member
\* /r/kk/d/y of the sibling directory kk is discarded
C27_Witness ==
    /\ JustDecided
    /\ Latest.keep = DirK
    /\ Latest.immune # <<>>
    /\ \E m \in Discards(Latest) : StartsWith(m, DirK) /\ ~InsideDir(m, DirK)


\* the phases before the first group is handled, and those of the disposal
BeforeDisposal == pc \in {"main", "scan", "bucket", "found"}
InDisposal == pc \in {"handle", "trash"}

\* C28: send2trash is first called when every size bucket has been hashed
\* and grouped; until then no step changes the tree, so every group is
\* computed from the tree as it was before the first disposal; and from then
\* on no step changes the buckets, the fingerprints or the groups.
C28_PhaseOrder ==
    /\ [](attempts # <<>> => (~BeforeDisposal /\ bucketIdx = Len(size_dict)))
    /\ [][BeforeDisposal => (fs' = fs /\ attempts' = <<>>)]_vars
    /\ [][InDisposal =>
            /\ duplicate_groups' = duplicate_groups
            /\ size_dict' = size_dict
            /\ file_info' = file_info]_vars

\* two size buckets gave a group each, and a file of the first group was
\* trashed before the second group was handled
C28_Witness ==
    /\ pc = "done"
    /\ Succeeded # {}
    /\ Len(duplicate_groups) >= 2
    /\ BucketWith(duplicate_groups[1][1]) # BucketWith(duplicate_groups[2][1])
    /\ attempts[1][2]
    /\ attempts[1][1] \in Range(duplicate_groups[1])


\* the fingerprint of the content p had when it was scanned: the one
\* computed for it if it was hashed, otherwise that of the entry, which is
\* still in the tree (only hashed files are trashed)
FingerprintOf(p) ==
    IF p \in DOMAIN file_info THEN file_info[p][1] ELSE compute_md5(fs, p)

\* the file at p could be read when it was hashed
WasReadable(p) ==
    IF p \in DOMAIN file_info THEN file_info[p][1] # Md5(<<>>) ELSE Resolve(fs, p).kind # "noread"

\* no two files of one size bucket carry the same basename
NoNameCollision ==
    \A b \in Buckets : \A i \in 1..Len(b), j \in 1..Len(b) :
        i # j => Basename(b[i]) # Basename(b[j])

\* C29: when every scanned file is readable and no two scanned files of one
\* size share a basename, every fingerprint of the inventory is, after the
\* run, still that of a scanned path at which a file can be read.
C29_ContentPreserved ==
    (/\ pc = "done"
     /\ exit_code = 0
     /\ \A p \in Inventory : WasReadable(p)
     /\ NoNameCollision) =>
        \A p \in Inventory :
            \E q \in Inventory : IsFile(fs, q) /\ compute_md5(fs, q) = FingerprintOf(p)


\* the index reached from i by following parent k times
RECURSIVE Up(_, _, _)
Up(parent, i, k) == IF k = 0 THEN i ELSE Up(parent, parent[i], k - 1)

\* where the parent chain of i ends, if it ends
RootOf(parent, i) == Up(parent, i, Len(parent))

\* an acyclic forest over the indices: every chain ends in a fixed point
WellFormed(parent) ==
    /\ \A i \in DOMAIN parent : parent[i] \in DOMAIN parent
    /\ \A i \in DOMAIN parent : parent[RootOf(parent, i)] = RootOf(parent, i)

\* C30: after any sequence of union and find calls the parent array is an
\* acyclic forest over its indices; find(x) returns the end of the chain of
\* x, and its path compression leaves a forest in which every index has the
\* root it had, changing only pointers of non-roots, to that root.
C30_ForestWellFormed ==
    pc = "union" =>
        /\ WellFormed(uf_parent)
        /\ \A x \in DOMAIN uf_parent :
              LET r == find(uf_parent, x) IN
              /\ r[2] = RootOf(uf_parent, x)
              /\ WellFormed(r[1])
              /\ \A i \in DOMAIN uf_parent :
                    /\ RootOf(r[1], i) = RootOf(uf_parent, i)
                    /\ r[1][i] # uf_parent[i] => (uf_parent[i] # i /\ r[1][i] = r[2])

\* a chain of three indices: find on its end compresses two links into one
C30_Witness ==
    /\ pc = "union"
    /\ \E x \in DOMAIN uf_parent :
          /\ uf_parent[x] # x
          /\ uf_parent[uf_parent[x]] # uf_parent[x]
          /\ find(uf_parent, x)[1] # uf_parent
          /\ find(uf_parent, x)[1][x] = RootOf(uf_parent, x)

====
